---- MODULE Spec2Model ----
(***************************************************************************)
(* ModuleWriter of lib/PrintAsClang/ModuleContentsWriter.cpp: the ledger   *)
(* (seenTypes), the import set, the work stack (declsToWrite), the delayed *)
(* member set and the drain loop of ModuleWriter::write().                 *)
(*                                                                         *)
(* A module is a set of features (superclass, conformance, inheritance,    *)
(* member reference, nested type) over a fixed universe of declarations.   *)
(* A member's interface type is represented by what ReferencedTypeFinder   *)
(* reports for it: the sequence of (TypeDecl, needsDefinition) callbacks.  *)
(***************************************************************************)
EXTENDS Integers, Sequences, FiniteSets, TLC

VARIABLES module, outputLangMode, pc, seenTypes, declsToWrite, delayedMembers,
          imports, dependsOnStdlib, interopExtensions, os

vars == <<module, outputLangMode, pc, seenTypes, declsToWrite, delayedMembers,
          imports, dependsOnStdlib, interopExtensions, os>>

\* Largest number of features (edges of the declaration graph) of a module.
MaxFeatures == 3

(***************************************************************************)
(* The declaration universe.                                               *)
(***************************************************************************)
ThisModule == "M"

LocalClasses == {"A", "B"}
LocalProtocols == {"P", "Q"}
Extensions == {"X1", "X2", "XS"}
ForeignDecls == {"NSObject", "Remote", "Int", "CEnum"}
TypeDecls == LocalClasses \cup LocalProtocols \cup {"E", "NE", "S"} \cup ForeignDecls
\* Declarations the module can hand over as top-level declarations
\* ("NE" is a nested type: it is only ever scheduled by its container).
TopLevelUniverse == LocalClasses \cup LocalProtocols \cup {"E", "S", "F"} \cup Extensions

Kind(D) ==
  CASE D \in {"A", "B", "NSObject", "Remote"} -> "Class"
    [] D \in {"P", "Q"} -> "Protocol"
    [] D \in {"E", "NE", "CEnum"} -> "Enum"
    [] D \in {"S", "Int"} -> "Struct"
    [] D = "F" -> "Func"
    [] D \in Extensions -> "Extension"

IsValueDecl(D) == Kind(D) # "Extension"
IsNominalTypeDecl(D) == Kind(D) \in {"Class", "Protocol", "Enum", "Struct"}

ModuleOf(D) ==
  CASE D \in {"NSObject", "CEnum"} -> "Foundation"
    [] D = "Remote" -> "OtherKit"
    [] D = "Int" -> "Swift"
    [] OTHER -> ThisModule

IsStdlibModule(m) == m = "Swift"
IsBuiltinModule(m) == m = "Builtin"
IsSimdModule(m) == m = "simd"
IsClangHeaderModule(m) == m = "__ObjC"
HasClangNode(D) == D \in {"NSObject", "CEnum"}
\* The explicit Clang (sub)module that owns a Clang declaration.
ClangOwningExplicitModule(D) == IF D = "NSObject" THEN "Foundation" ELSE "none"
\* The class an extension extends (getSelfClassDecl), the nominal otherwise.
ExtendedNominal(ED) == IF ED = "XS" THEN "S" ELSE "A"
SelfClassDecl(ED) == IF Kind(ExtendedNominal(ED)) = "Class" THEN ExtendedNominal(ED) ELSE "none"

\* Lexicographic rank of the user-facing names "A" < "B" < "E" < "F" < ...
NameRank(D) ==
  CASE D = "A" -> 1 [] D = "B" -> 2 [] D = "E" -> 3 [] D = "F" -> 4
    [] D = "P" -> 5 [] D = "Q" -> 6 [] D = "S" -> 7

(***************************************************************************)
(* Modules: sets of features.                                              *)
(***************************************************************************)
Feat(f, from, to, def) == [f |-> f, from |-> from, to |-> to, def |-> def]
Super(c, t) == Feat("super", c, t, FALSE)
Conf(c, t) == Feat("conf", c, t, FALSE)
Inh(c, t) == Feat("inh", c, t, FALSE)
Nested(c, t) == Feat("nested", c, t, FALSE)
Ref(c, t, d) == Feat("ref", c, t, d)

\* Every feature a module can have, in declaration order (the order of the
\* members of a container and of the protocols of a class or extension).
FeatureSeq ==
  << Super("A", "B"), Super("B", "Remote"),
     Conf("A", "Q"), Conf("A", "P"), Conf("X1", "P"), Conf("X2", "Q"),
     Inh("P", "Q"),
     Nested("A", "NE"), Nested("X1", "NE"),
     Ref("A", "B", TRUE), Ref("A", "B", FALSE), Ref("A", "NSObject", FALSE),
     Ref("A", "S", TRUE), Ref("A", "A", TRUE),
     Ref("B", "A", TRUE),
     Ref("P", "Q", TRUE), Ref("P", "Q", FALSE), Ref("P", "E", TRUE), Ref("P", "A", TRUE),
     Ref("Q", "P", TRUE),
     Ref("X1", "E", TRUE), Ref("X1", "P", TRUE), Ref("X1", "B", TRUE),
     Ref("X1", "NSObject", TRUE),
     Ref("X2", "B", FALSE),
     Ref("E", "P", FALSE),
     Ref("S", "E", FALSE),
     Ref("XS", "E", FALSE),
     Ref("F", "A", FALSE), Ref("F", "S", FALSE), Ref("F", "Int", FALSE),
     Ref("F", "CEnum", FALSE) >>

Features == {FeatureSeq[i] : i \in 1..Len(FeatureSeq)}

RECURSIVE FeatureSets(_)
FeatureSets(k) ==
  IF k = 0 THEN {{}}
  ELSE LET prev == FeatureSets(k - 1)
       IN  prev \cup {s \cup {x} : s \in prev, x \in Features}

\* The type checker rejects cyclic inheritance and a second superclass; a
\* nested type has one parent.
WellFormed(m) ==
  /\ \A x, y \in m : (x.f = "super" /\ y.f = "super" /\ x.from = y.from) => x = y
  /\ \A x, y \in m : (x.f = "nested" /\ y.f = "nested") => x = y
  /\ \A x, y \in m : (x.f = y.f /\ x.f \in {"super", "inh"}) => ~(x.from = y.to /\ y.from = x.to)

Mentions(m, D) == \E x \in m : x.from = D \/ x.to = D

\* shouldInclude: a struct is not representable in Objective-C, so neither it
\* nor anything that mentions it is handed to the Objective-C writer.
Representable(m, mode) == mode = "Cxx" \/ (~Mentions(m, "S") /\ ~Mentions(m, "XS"))

Modules == {m \in FeatureSets(MaxFeatures) : WellFormed(m)}

FeaturesOf(m, c, kinds) ==
  SelectSeq(FeatureSeq, LAMBDA x : x \in m /\ x.from = c /\ x.f \in kinds)

SuperclassDecl(m, CD) ==
  LET s == FeaturesOf(m, CD, {"super"}) IN IF s = <<>> THEN "none" ELSE s[1].to

\* getLocalProtocols / getInheritedProtocols, in declaration order.
ProtocolsOf(m, D) ==
  LET s == FeaturesOf(m, D, {"conf", "inh"}) IN [i \in 1..Len(s) |-> s[i].to]

\* The included members of a container, in declaration order.
MembersOf(m, c) == FeaturesOf(m, c, {"ref", "nested"})

\* ReferencedTypeFinder::walk on a member's interface type: the callbacks
\* (TypeDecl, needsDefinition) in order.
ReferencedTypes(member) == << [td |-> member.to, needsDefinition |-> member.def] >>

(***************************************************************************)
(* The writer's mutable state as one record, threaded through the methods. *)
(***************************************************************************)
NotYetDefined == 0
DefinitionRequested == 1
Defined == 2

Writer ==
  [seenTypes |-> seenTypes, declsToWrite |-> declsToWrite,
   delayedMembers |-> delayedMembers, imports |-> imports,
   dependsOnStdlib |-> dependsOnStdlib, os |-> os]

Result(w, res) == [w |-> w, res |-> res]

\* A local of the C++ code: x is evaluated once, F is the code that follows.
Bind(x, F(_)) == CHOOSE v \in {F(y) : y \in {x}} : TRUE

\* Text written to os, one record per printed item.
FwdEvent(D) == [k |-> "fwd", d |-> D, members |-> <<>>]
\* printer.print(D); the printer skips the members that are in the delayed set.
DefEvent(w, D) ==
  [k |-> "def", d |-> D,
   members |-> SelectSeq(MembersOf(module, D),
                         LAMBDA x : x.f = "ref" /\ \A i \in 1..Len(w.delayedMembers) :
                                                      w.delayedMembers[i] # x)]
CategoryEvent(ms) == [k |-> "category", d |-> ms[1].from, members |-> ms]
OutOfLineEvent == [k |-> "outOfLine", d |-> "none", members |-> <<>>]

Emit(w, e) == [w EXCEPT !.os = Append(@, e)]

\* Mutant of AddImport: the owning Clang module of a Clang declaration is
\* not inserted.
AddImportWithoutClangModule(w, D) ==
  LET otherModule == ModuleOf(D) IN
  IF otherModule = ThisModule THEN Result(w, FALSE)
  ELSE IF IsStdlibModule(otherModule)
    THEN Result([w EXCEPT !.dependsOnStdlib = TRUE], TRUE)
  ELSE IF IsBuiltinModule(otherModule) THEN Result(w, TRUE)
  ELSE IF IsSimdModule(otherModule) THEN Result(w, TRUE)
  ELSE IF HasClangNode(D) /\ ClangOwningExplicitModule(D) # "none" THEN Result(w, TRUE)
  ELSE IF outputLangMode = "Cxx" /\ (~HasClangNode(D) \/ IsClangHeaderModule(otherModule))
    THEN Result(w, TRUE)
  ELSE Result([w EXCEPT !.imports = @ \cup {otherModule}], TRUE)

\* Mutant of AddImport: in C++ mode a foreign declaration without a Clang
\* node is reported as not imported.
AddImportUnhandledInCxx(w, D) ==
  LET otherModule == ModuleOf(D) IN
  IF otherModule = ThisModule THEN Result(w, FALSE)
  ELSE IF IsStdlibModule(otherModule)
    THEN Result([w EXCEPT !.dependsOnStdlib = TRUE], TRUE)
  ELSE IF IsBuiltinModule(otherModule) THEN Result(w, TRUE)
  ELSE IF IsSimdModule(otherModule) THEN Result(w, TRUE)
  ELSE IF HasClangNode(D) /\ ClangOwningExplicitModule(D) # "none"
    THEN Result([w EXCEPT !.imports = @ \cup {ClangOwningExplicitModule(D)}], TRUE)
  ELSE IF outputLangMode = "Cxx" /\ (~HasClangNode(D) \/ IsClangHeaderModule(otherModule))
    THEN Result(w, FALSE)
  ELSE Result([w EXCEPT !.imports = @ \cup {otherModule}], TRUE)

AddImport(w, D) ==
  LET otherModule == ModuleOf(D) IN
  IF otherModule = ThisModule THEN Result(w, FALSE)
  ELSE IF IsStdlibModule(otherModule)
    THEN Result([w EXCEPT !.dependsOnStdlib = TRUE], TRUE)
  ELSE IF IsBuiltinModule(otherModule) THEN Result(w, TRUE)
  ELSE IF IsSimdModule(otherModule) THEN Result(w, TRUE)
  ELSE IF HasClangNode(D) /\ ClangOwningExplicitModule(D) # "none"
    THEN Result([w EXCEPT !.imports = @ \cup {ClangOwningExplicitModule(D)}], TRUE)
  ELSE IF outputLangMode = "Cxx" /\ (~HasClangNode(D) \/ IsClangHeaderModule(otherModule))
    THEN Result(w, TRUE)
  ELSE Result([w EXCEPT !.imports = @ \cup {otherModule}], TRUE)

HasBeenRequested(w, D) == w.seenTypes[D].first >= DefinitionRequested

\* Mutant of MarkDefined: the forwardDeclared flag is left as it is.
MarkDefinedKeepingFlag(w, D) ==
  [w EXCEPT !.seenTypes[D].first = Defined]

MarkDefined(w, D) ==
  [w EXCEPT !.seenTypes[D] = [first |-> Defined, second |-> TRUE]]

\* Mutant of TryRequire: a declaration that is not Defined is scheduled.
TryRequireScheduling(w, D) ==
  Bind(AddImport(w, D), LAMBDA imp :
    IF imp.res THEN Result(MarkDefined(imp.w, D), TRUE)
    ELSE IF imp.w.seenTypes[D].first = Defined THEN Result(imp.w, TRUE)
    ELSE Result([imp.w EXCEPT !.seenTypes[D].first = DefinitionRequested,
                              !.declsToWrite = Append(@, D)], FALSE))

TryRequire(w, D) ==
  Bind(AddImport(w, D), LAMBDA imp :
    IF imp.res THEN Result(MarkDefined(imp.w, D), TRUE)
    ELSE Result(imp.w, imp.w.seenTypes[D].first = Defined))

\* Mutant of Require: a declaration already in DefinitionRequested is not
\* pushed again.
RequireWithoutRepush(w, D) ==
  Bind(AddImport(w, D), LAMBDA imp :
    IF imp.res THEN Result(MarkDefined(imp.w, D), TRUE)
    ELSE IF imp.w.seenTypes[D].first = NotYetDefined
      THEN Result([imp.w EXCEPT !.seenTypes[D].first = DefinitionRequested,
                                !.declsToWrite = Append(@, D)], FALSE)
    ELSE Result(imp.w, imp.w.seenTypes[D].first = Defined))

\* Mutant of Require: a declaration that is already Defined is requested
\* and pushed again.
RequireRegressing(w, D) ==
  Bind(AddImport(w, D), LAMBDA imp :
    IF imp.res THEN Result(MarkDefined(imp.w, D), TRUE)
    ELSE Result([imp.w EXCEPT !.seenTypes[D].first = DefinitionRequested,
                              !.declsToWrite = Append(@, D)], FALSE))

\* Mutant of Require: a declaration that is already Defined is pushed again.
RequirePushingDefined(w, D) ==
  Bind(AddImport(w, D), LAMBDA imp :
    IF imp.res THEN Result(MarkDefined(imp.w, D), TRUE)
    ELSE IF imp.w.seenTypes[D].first \in {NotYetDefined, DefinitionRequested}
      THEN Result([imp.w EXCEPT !.seenTypes[D].first = DefinitionRequested,
                                !.declsToWrite = Append(@, D)], FALSE)
    ELSE Result([imp.w EXCEPT !.declsToWrite = Append(@, D)], TRUE))

Require(w, D) ==
  Bind(AddImport(w, D), LAMBDA imp :
    IF imp.res THEN Result(MarkDefined(imp.w, D), TRUE)
    ELSE IF imp.w.seenTypes[D].first \in {NotYetDefined, DefinitionRequested}
      THEN Result([imp.w EXCEPT !.seenTypes[D].first = DefinitionRequested,
                                !.declsToWrite = Append(@, D)], FALSE)
    ELSE Result(imp.w, TRUE))

\* Mutant of ForwardDeclare: the forwardDeclared flag is not consulted.
ForwardDeclareUnguarded(w, NTD) ==
  IF IsStdlibModule(ModuleOf(NTD)) /\ outputLangMode # "Cxx" THEN w
  ELSE [Emit(w, FwdEvent(NTD)) EXCEPT !.seenTypes[NTD].second = TRUE]

\* forwardDeclare(const NominalTypeDecl *, Printer)
ForwardDeclare(w, NTD) ==
  IF IsStdlibModule(ModuleOf(NTD)) /\ outputLangMode # "Cxx" THEN w
  ELSE IF w.seenTypes[NTD].second THEN w
  ELSE [Emit(w, FwdEvent(NTD)) EXCEPT !.seenTypes[NTD].second = TRUE]

\* Every class of the universe is an @objc class that is neither a CF type
\* nor an <os/object.h> type.
IsForwardDeclarableClass(CD) == Kind(CD) = "Class"

\* forwardDeclare(const ClassDecl *)
ForwardDeclareClass(w, CD) ==
  IF ~IsForwardDeclarableClass(CD) THEN Result(w, FALSE)
  ELSE Result(ForwardDeclare(w, CD), TRUE)

ForwardDeclareCxxValueTypeIfNeeded(w, NTD) == ForwardDeclare(w, NTD)

\* Mutant of ForwardDeclareType: in Objective-C mode a referenced class is
\* not forward-declared.
ForwardDeclareTypeSkippingClasses(w, TD) ==
  IF outputLangMode = "Cxx" THEN
    IF Kind(TD) \in {"Struct", "Enum"} THEN
      Bind(AddImport(w, TD), LAMBDA imp :
        IF ~imp.res THEN ForwardDeclareCxxValueTypeIfNeeded(imp.w, TD) ELSE imp.w)
    ELSE w
  ELSE IF Kind(TD) = "Class" THEN w
  ELSE IF Kind(TD) = "Protocol" THEN ForwardDeclare(w, TD)
  ELSE Bind(AddImport(w, TD), LAMBDA imp :
         IF imp.res THEN imp.w
         ELSE IF Kind(TD) = "Enum" THEN ForwardDeclare(imp.w, TD)
         ELSE imp.w)

ForwardDeclareType(w, TD) ==
  IF outputLangMode = "Cxx" THEN
    IF Kind(TD) \in {"Struct", "Enum"} THEN
      Bind(AddImport(w, TD), LAMBDA imp :
        IF ~imp.res THEN ForwardDeclareCxxValueTypeIfNeeded(imp.w, TD) ELSE imp.w)
    ELSE w
  ELSE IF Kind(TD) = "Class" THEN
    Bind(ForwardDeclareClass(w, TD), LAMBDA fd :
      IF ~fd.res THEN AddImport(fd.w, TD).w ELSE fd.w)
  ELSE IF Kind(TD) = "Protocol" THEN ForwardDeclare(w, TD)
  ELSE Bind(AddImport(w, TD), LAMBDA imp :
         IF imp.res THEN imp.w
         ELSE IF Kind(TD) = "Enum" THEN ForwardDeclare(imp.w, TD)
         ELSE imp.w)

(***************************************************************************)
(* forwardDeclareMemberTypes                                               *)
(***************************************************************************)
\* Mutant of VisitReferencedType: a class member whose dependency is not
\* yet Defined is not marked for delay.
VisitReferencedTypeWithoutDelay(acc, TD, needsDefinition, container) ==
  LET fallThrough == [acc EXCEPT !.w = ForwardDeclareType(acc.w, TD)] IN
  IF TD = container THEN acc
  ELSE IF needsDefinition /\ IsNominalTypeDecl(TD) THEN
    IF Kind(container) = "Class" THEN [acc EXCEPT !.w = TryRequire(acc.w, TD).w]
    ELSE IF Kind(container) = "Extension" THEN
      Bind(Require(acc.w, TD), LAMBDA r :
        [acc EXCEPT !.w = r.w, !.had = @ \/ ~r.res])
    ELSE IF /\ Kind(container) = "Protocol"
            /\ (~HasBeenRequested(acc.w, container) \/ ~HasBeenRequested(acc.w, TD)) THEN
      Bind(Require(acc.w, TD), LAMBDA r :
        [acc EXCEPT !.w = r.w, !.had = @ \/ ~r.res])
    ELSE fallThrough
  ELSE fallThrough

\* Mutant of VisitReferencedType: a protocol is delayed only when neither
\* it nor the dependency has been requested.
VisitReferencedTypeDelayingUnrequested(acc, TD, needsDefinition, container) ==
  LET fallThrough == [acc EXCEPT !.w = ForwardDeclareType(acc.w, TD)] IN
  IF TD = container THEN acc
  ELSE IF needsDefinition /\ IsNominalTypeDecl(TD) THEN
    IF Kind(container) = "Class" THEN
      Bind(TryRequire(acc.w, TD), LAMBDA r :
        IF ~r.res THEN [w |-> r.w, delayed |-> TRUE, had |-> TRUE]
        ELSE [acc EXCEPT !.w = r.w])
    ELSE IF Kind(container) = "Extension" THEN
      Bind(Require(acc.w, TD), LAMBDA r :
        [acc EXCEPT !.w = r.w, !.had = @ \/ ~r.res])
    ELSE IF /\ Kind(container) = "Protocol"
            /\ (~HasBeenRequested(acc.w, container) /\ ~HasBeenRequested(acc.w, TD)) THEN
      Bind(Require(acc.w, TD), LAMBDA r :
        [acc EXCEPT !.w = r.w, !.had = @ \/ ~r.res])
    ELSE fallThrough
  ELSE fallThrough

\* Mutant of VisitReferencedType: a class schedules the dependency of a
\* member with require.
VisitReferencedTypeRequiringInClass(acc, TD, needsDefinition, container) ==
  LET fallThrough == [acc EXCEPT !.w = ForwardDeclareType(acc.w, TD)] IN
  IF TD = container THEN acc
  ELSE IF needsDefinition /\ IsNominalTypeDecl(TD) THEN
    IF Kind(container) = "Class" THEN
      Bind(Require(acc.w, TD), LAMBDA r :
        IF ~r.res THEN [w |-> r.w, delayed |-> TRUE, had |-> TRUE]
        ELSE [acc EXCEPT !.w = r.w])
    ELSE IF Kind(container) = "Extension" THEN
      Bind(Require(acc.w, TD), LAMBDA r :
        [acc EXCEPT !.w = r.w, !.had = @ \/ ~r.res])
    ELSE IF /\ Kind(container) = "Protocol"
            /\ (~HasBeenRequested(acc.w, container) \/ ~HasBeenRequested(acc.w, TD)) THEN
      Bind(Require(acc.w, TD), LAMBDA r :
        [acc EXCEPT !.w = r.w, !.had = @ \/ ~r.res])
    ELSE fallThrough
  ELSE fallThrough

\* The callback of ReferencedTypeFinder::walk for one referenced type.
\* acc = [w, delayed (needsToBeIndividuallyDelayed), had (hadAnyDelayedMembers)]
VisitReferencedType(acc, TD, needsDefinition, container) ==
  LET fallThrough == [acc EXCEPT !.w = ForwardDeclareType(acc.w, TD)] IN
  IF TD = container THEN acc
  ELSE IF needsDefinition /\ IsNominalTypeDecl(TD) THEN
    IF Kind(container) = "Class" THEN
      Bind(TryRequire(acc.w, TD), LAMBDA r :
        IF ~r.res THEN [w |-> r.w, delayed |-> TRUE, had |-> TRUE]
        ELSE [acc EXCEPT !.w = r.w])
    ELSE IF Kind(container) = "Extension" THEN
      Bind(Require(acc.w, TD), LAMBDA r :
        [acc EXCEPT !.w = r.w, !.had = @ \/ ~r.res])
    ELSE IF /\ Kind(container) = "Protocol"
            /\ (~HasBeenRequested(acc.w, container) \/ ~HasBeenRequested(acc.w, TD)) THEN
      Bind(Require(acc.w, TD), LAMBDA r :
        [acc EXCEPT !.w = r.w, !.had = @ \/ ~r.res])
    ELSE fallThrough
  ELSE fallThrough

RECURSIVE WalkInterfaceType(_, _, _, _)
WalkInterfaceType(acc, refs, i, container) ==
  IF i > Len(refs) THEN acc
  ELSE WalkInterfaceType(
         VisitReferencedType(acc, refs[i].td, refs[i].needsDefinition, container),
         refs, i + 1, container)

\* Mutant of InsertDelayed: the member is not recorded.
InsertDelayedDropped(w, VD) == w

\* delayedMembers is a SetVector: insertion-ordered, no duplicates.
InsertDelayed(w, VD) ==
  IF \E i \in 1..Len(w.delayedMembers) : w.delayedMembers[i] = VD THEN w
  ELSE [w EXCEPT !.delayedMembers = Append(@, VD)]

\* acc = [w, had, nestedTypes]
RECURSIVE WalkMembers(_, _, _, _)
WalkMembers(acc, members, i, container) ==
  IF i > Len(members) THEN acc
  ELSE IF members[i].f = "nested" THEN
    WalkMembers([acc EXCEPT !.nestedTypes = Append(@, members[i].to)],
                members, i + 1, container)
  ELSE
    Bind(WalkInterfaceType([w |-> acc.w, delayed |-> FALSE, had |-> acc.had],
                           ReferencedTypes(members[i]), 1, container),
         LAMBDA r :
           WalkMembers([acc EXCEPT
                          !.w = IF r.delayed THEN InsertDelayed(r.w, members[i]) ELSE r.w,
                          !.had = r.had],
                       members, i + 1, container))

Reverse(s) == [i \in 1..Len(s) |-> s[Len(s) + 1 - i]]

\* declsToWrite.insert(declsToWrite.end()-1, nestedTypes.rbegin(), nestedTypes.rend())
\* Mutant of InsertNestedTypes: the nested types are pushed on top.
InsertNestedTypesOnTop(stack, nestedTypes) ==
  stack \o Reverse(nestedTypes)

InsertNestedTypes(stack, nestedTypes) ==
  SubSeq(stack, 1, Len(stack) - 1) \o Reverse(nestedTypes) \o <<stack[Len(stack)]>>

ForwardDeclareMemberTypes(w, members, container) ==
  Bind(WalkMembers([w |-> w, had |-> FALSE, nestedTypes |-> <<>>], members, 1, container),
       LAMBDA r :
         Result([r.w EXCEPT !.declsToWrite = InsertNestedTypes(@, r.nestedTypes)], ~r.had))

(***************************************************************************)
(* The writers of the declaration kinds                                    *)
(***************************************************************************)
\* Mutant of RequireAll: the results of require are not accumulated.
RECURSIVE RequireAllIgnoringResults(_, _, _)
RequireAllIgnoringResults(acc, decls, i) ==
  IF i > Len(decls) THEN acc
  ELSE Bind(Require(acc.w, decls[i]), LAMBDA r :
         RequireAllIgnoringResults(Result(r.w, acc.res), decls, i + 1))

\* allRequirementsSatisfied &= require(proto) for each protocol, in order.
\* acc = [w, res]
RECURSIVE RequireAll(_, _, _)
RequireAll(acc, decls, i) ==
  IF i > Len(decls) THEN acc
  ELSE Bind(Require(acc.w, decls[i]), LAMBDA r :
         RequireAll(Result(r.w, acc.res /\ r.res), decls, i + 1))

\* The tail of writeClass: forward declarations, the ledger entry, the print.
PrintClass(w, CD) ==
  Bind(MarkDefined(ForwardDeclareMemberTypes(w, MembersOf(module, CD), CD).w, CD),
       LAMBDA w3 : Result(Emit(w3, DefEvent(w3, CD)), TRUE))

\* The requirements of writeClass: the superclass, then the protocols.
RequireSuperclassAndProtocols(w, CD) ==
  Bind(IF SuperclassDecl(module, CD) # "none"
         THEN Require(w, SuperclassDecl(module, CD))
         ELSE Result(w, TRUE),
       LAMBDA r1 :
         IF outputLangMode # "Cxx"
           THEN RequireAll(r1, ProtocolsOf(module, CD), 1)
           ELSE r1)

\* Mutant of WriteClass: the early return for a class that is already
\* Defined is missing.
WriteClassWithoutDefinedCheck(w, CD) ==
  IF AddImport(w, CD).res THEN Result(AddImport(w, CD).w, TRUE)
  ELSE Bind(RequireSuperclassAndProtocols(w, CD), LAMBDA r2 :
         IF ~r2.res THEN Result(r2.w, FALSE)
         ELSE PrintClass(r2.w, CD))

WriteClass(w, CD) ==
  IF AddImport(w, CD).res THEN Result(AddImport(w, CD).w, TRUE)
  ELSE IF w.seenTypes[CD].first = Defined THEN Result(w, TRUE)
  ELSE Bind(RequireSuperclassAndProtocols(w, CD), LAMBDA r2 :
         IF ~r2.res THEN Result(r2.w, FALSE)
         ELSE PrintClass(r2.w, CD))

\* acc is a writer state
RECURSIVE ForwardDeclareAll(_, _, _)
ForwardDeclareAll(w, refs, i) ==
  IF i > Len(refs) THEN w
  ELSE ForwardDeclareAll(ForwardDeclareType(w, refs[i].td), refs, i + 1)

RECURSIVE SignatureTypes(_, _)
SignatureTypes(members, i) ==
  IF i > Len(members) THEN <<>>
  ELSE ReferencedTypes(members[i]) \o SignatureTypes(members, i + 1)

WriteFunc(w, FD) ==
  IF AddImport(w, FD).res THEN Result(AddImport(w, FD).w, TRUE)
  ELSE Bind(ForwardDeclareAll(w, SignatureTypes(MembersOf(module, FD), 1), 1),
            LAMBDA w2 : Result(Emit(w2, DefEvent(w2, FD)), TRUE))

\* acc is a writer state
RECURSIVE ForwardDeclareExtensionMembers(_, _, _, _)
ForwardDeclareExtensionMembers(w, exts, i, SD) ==
  IF i > Len(exts) THEN w
  ELSE ForwardDeclareExtensionMembers(
         ForwardDeclareMemberTypes(w, MembersOf(module, exts[i]), SD).w, exts, i + 1, SD)

WriteStruct(w, SD) ==
  IF AddImport(w, SD).res THEN Result(AddImport(w, SD).w, TRUE)
  ELSE
    Bind(IF outputLangMode = "Cxx"
           THEN ForwardDeclareCxxValueTypeIfNeeded(
                  ForwardDeclareExtensionMembers(
                    ForwardDeclareMemberTypes(w, MembersOf(module, SD), SD).w,
                    SelectSeq(interopExtensions, LAMBDA ed : ExtendedNominal(ed) = SD),
                    1, SD),
                  SD)
           ELSE w,
         LAMBDA w2 : Result(Emit(w2, DefEvent(w2, SD)), TRUE))

WriteProtocol(w, PD) ==
  IF AddImport(w, PD).res THEN Result(AddImport(w, PD).w, TRUE)
  ELSE IF w.seenTypes[PD].first = Defined THEN Result(w, TRUE)
  ELSE
    Bind(RequireAll(Result(w, TRUE), ProtocolsOf(module, PD), 1), LAMBDA r :
      IF ~r.res THEN Result(r.w, FALSE)
      ELSE Bind(ForwardDeclareMemberTypes(r.w, MembersOf(module, PD), PD), LAMBDA fd :
             IF ~fd.res THEN Result(fd.w, FALSE)
             ELSE Bind(MarkDefined(fd.w, PD), LAMBDA w3 :
                    Result(Emit(w3, DefEvent(w3, PD)), TRUE))))

\* printer.isEmptyExtensionDecl: the extension has zero printable members.
IsEmptyExtensionDecl(ED) == MembersOf(module, ED) = <<>>

\* Mutant of WriteExtension: the empty-extension check comes after the
\* requirements.
WriteExtensionRequiringFirst(w, ED) ==
  Bind(RequireAll(Require(w, SelfClassDecl(ED)), ProtocolsOf(module, ED), 1), LAMBDA r2 :
    IF ~r2.res THEN Result(r2.w, FALSE)
    ELSE IF IsEmptyExtensionDecl(ED) THEN Result(r2.w, TRUE)
    ELSE Bind(ForwardDeclareMemberTypes(r2.w, MembersOf(module, ED), ED), LAMBDA fd :
           IF ~fd.res THEN Result(fd.w, FALSE)
           ELSE Result(Emit(fd.w, DefEvent(fd.w, ED)), TRUE)))

\* Mutant of WriteExtension: the result of forwardDeclareMemberTypes is
\* ignored, as writeClass does.
WriteExtensionIgnoringMembers(w, ED) ==
  IF IsEmptyExtensionDecl(ED) THEN Result(w, TRUE)
  ELSE
    Bind(RequireAll(Require(w, SelfClassDecl(ED)), ProtocolsOf(module, ED), 1), LAMBDA r2 :
      IF ~r2.res THEN Result(r2.w, FALSE)
      ELSE Bind(ForwardDeclareMemberTypes(r2.w, MembersOf(module, ED), ED), LAMBDA fd :
             Result(Emit(fd.w, DefEvent(fd.w, ED)), TRUE)))

WriteExtension(w, ED) ==
  IF IsEmptyExtensionDecl(ED) THEN Result(w, TRUE)
  ELSE
    Bind(RequireAll(Require(w, SelfClassDecl(ED)), ProtocolsOf(module, ED), 1), LAMBDA r2 :
      IF ~r2.res THEN Result(r2.w, FALSE)
      ELSE Bind(ForwardDeclareMemberTypes(r2.w, MembersOf(module, ED), ED), LAMBDA fd :
             IF ~fd.res THEN Result(fd.w, FALSE)
             ELSE Result(Emit(fd.w, DefEvent(fd.w, ED)), TRUE)))

WriteEnum(w, ED) ==
  IF AddImport(w, ED).res THEN Result(AddImport(w, ED).w, TRUE)
  ELSE
    Bind(IF outputLangMode = "Cxx"
           THEN ForwardDeclareCxxValueTypeIfNeeded(
                  ForwardDeclareMemberTypes(w, MembersOf(module, ED), ED).w, ED)
           ELSE w,
         LAMBDA w2 :
           IF w2.seenTypes[ED].first = Defined THEN Result(w2, TRUE)
           ELSE Bind(MarkDefined(w2, ED), LAMBDA w3 :
                  Result(Emit(w3, DefEvent(w3, ED)), TRUE)))

(***************************************************************************)
(* write(): filtering, the reverse sort, the drain loop and the epilogue   *)
(***************************************************************************)
\* M.getTopLevelDecls: the declarations of the module's features, plus the
\* nominal an extension extends.
TopLevelDecls(m) ==
  {D \in TopLevelUniverse :
     \/ Mentions(m, D)
     \/ \E ED \in Extensions : Mentions(m, ED) /\ ExtendedNominal(ED) = D}

\* The remove_if predicate of write(): TRUE when D is dropped.
FilteredOut(D) ==
  IF IsValueDecl(D) THEN FALSE
  ELSE IF outputLangMode = "Cxx" THEN FALSE
  ELSE SelfClassDecl(D) = "none" \/ ModuleOf(SelfClassDecl(D)) # ThisModule

Ascending == -1
Equivalent == 0
Descending == 1

SortName(D) == IF IsValueDecl(D) THEN NameRank(D) ELSE NameRank(ExtendedNominal(D))

\* StringRef::compare on the ranks of two names.
NameCompare(a, b) == IF a < b THEN -1 ELSE IF a > b THEN 1 ELSE 0

\* std::mismatch with the predicate "the names differ": the first index at
\* which the predicate is false, Len + 1 when there is none.
RECURSIVE Mismatch(_, _, _)
Mismatch(l, r, i) ==
  IF i > Len(l) THEN i
  ELSE IF NameRank(l[i]) # NameRank(r[i]) THEN Mismatch(l, r, i + 1)
  ELSE i

\* Mutant of Compare: the extension with fewer members sorts first.
CompareSmallerExtensionFirst(lhs, rhs) ==
  LET result == NameCompare(SortName(rhs), SortName(lhs)) IN
  IF result # 0 THEN result
  ELSE IF IsValueDecl(lhs) /\ ~IsValueDecl(rhs) THEN Descending
  ELSE IF ~IsValueDecl(lhs) /\ IsValueDecl(rhs) THEN Ascending
  ELSE
    LET numLHSMembers == Len(MembersOf(module, lhs))
        numRHSMembers == Len(MembersOf(module, rhs))
        lhsProtos == ProtocolsOf(module, lhs)
        rhsProtos == ProtocolsOf(module, rhs)
    IN  IF numLHSMembers # numRHSMembers
          THEN (IF numLHSMembers < numRHSMembers THEN Ascending ELSE Descending)
        ELSE IF Len(lhsProtos) # Len(rhsProtos)
          THEN (IF Len(lhsProtos) < Len(rhsProtos) THEN Descending ELSE Ascending)
        ELSE LET k == Mismatch(lhsProtos, rhsProtos, 1) IN
             IF k > Len(lhsProtos) THEN Equivalent
             ELSE NameCompare(NameRank(lhsProtos[k]), NameRank(rhsProtos[k]))

\* The comparator handed to array_pod_sort.
Compare(lhs, rhs) ==
  LET result == NameCompare(SortName(rhs), SortName(lhs)) IN
  IF result # 0 THEN result
  ELSE IF IsValueDecl(lhs) /\ ~IsValueDecl(rhs) THEN Descending
  ELSE IF ~IsValueDecl(lhs) /\ IsValueDecl(rhs) THEN Ascending
  ELSE
    LET numLHSMembers == Len(MembersOf(module, lhs))
        numRHSMembers == Len(MembersOf(module, rhs))
        lhsProtos == ProtocolsOf(module, lhs)
        rhsProtos == ProtocolsOf(module, rhs)
    IN  IF numLHSMembers # numRHSMembers
          THEN (IF numLHSMembers < numRHSMembers THEN Descending ELSE Ascending)
        ELSE IF Len(lhsProtos) # Len(rhsProtos)
          THEN (IF Len(lhsProtos) < Len(rhsProtos) THEN Descending ELSE Ascending)
        ELSE LET k == Mismatch(lhsProtos, rhsProtos, 1) IN
             IF k > Len(lhsProtos) THEN Equivalent
             ELSE NameCompare(NameRank(lhsProtos[k]), NameRank(rhsProtos[k]))

\* array_pod_sort is qsort: it leaves the relative order of elements that
\* compare Equivalent unspecified, so that order follows the order in which
\* the module handed the declarations over.  Every arrangement that agrees
\* with the comparator is the result for some hand-over order.
RECURSIVE SortedOrders(_)
SortedOrders(decls) ==
  IF decls = {} THEN {<<>>}
  ELSE UNION {{<<x>> \o t : t \in SortedOrders(decls \ {x})} :
              x \in {y \in decls : \A z \in decls \ {y} : Compare(y, z) <= 0}}

FilteredDecls == {D \in TopLevelDecls(module) : ~FilteredOut(D)}

TypeOK ==
  /\ module \in Modules
  /\ outputLangMode \in {"ObjC", "Cxx"}
  /\ pc \in {"start", "drain", "delayed", "outOfLine", "done", "assertFailed"}
  /\ seenTypes \in [TypeDecls -> [first : {NotYetDefined, DefinitionRequested, Defined},
                                 second : BOOLEAN]]
  /\ imports \subseteq {"Foundation", "OtherKit", "Swift"}
  /\ dependsOnStdlib \in BOOLEAN

Init ==
  /\ module \in Modules
  /\ outputLangMode \in {"ObjC", "Cxx"}
  /\ Representable(module, outputLangMode)
  /\ pc = "start"
  /\ seenTypes = [D \in TypeDecls |-> [first |-> NotYetDefined, second |-> FALSE]]
  /\ declsToWrite = <<>>
  /\ delayedMembers = <<>>
  /\ imports = {}
  /\ dependsOnStdlib = FALSE
  /\ interopExtensions = <<>>
  /\ os = <<>>

Install(w) ==
  /\ seenTypes' = w.seenTypes
  /\ declsToWrite' = w.declsToWrite
  /\ delayedMembers' = w.delayedMembers
  /\ imports' = w.imports
  /\ dependsOnStdlib' = w.dependsOnStdlib
  /\ os' = w.os

\* write() up to the loop: filter, sort, assign, record struct extensions.
BeginWrite ==
  /\ pc = "start"
  /\ \E sorted \in SortedOrders(FilteredDecls) :
       /\ declsToWrite' = sorted
       /\ interopExtensions' =
            IF outputLangMode = "Cxx"
            THEN SelectSeq(sorted, LAMBDA D : /\ Kind(D) = "Extension"
                                              /\ Kind(ExtendedNominal(D)) = "Struct")
            ELSE <<>>
  /\ pc' = "drain"
  /\ UNCHANGED <<module, outputLangMode, seenTypes, delayedMembers, imports,
                 dependsOnStdlib, os>>

Back(stack) == stack[Len(stack)]
PopBack(stack) == SubSeq(stack, 1, Len(stack) - 1)

\* Mutant of FinishIteration: the top of the stack is popped after a failed
\* attempt as well.
FinishIterationAlwaysPopping(w, D, success) ==
  [w EXCEPT !.declsToWrite = PopBack(@)]

\* The tail of one loop iteration: on success assert the top and pop it.
FinishIteration(w, D, success) ==
  IF ~success THEN w
  ELSE [w EXCEPT !.declsToWrite = PopBack(@)]

\* One iteration of the loop for the declaration on top, as a function of
\* the writer state.
Attempt(w, D) ==
  IF Kind(D) = "Enum" THEN WriteEnum(w, D)
  ELSE IF Kind(D) = "Class" THEN WriteClass(w, D)
  ELSE IF outputLangMode = "Cxx" THEN
    (IF Kind(D) = "Func" THEN WriteFunc(w, D)
     ELSE IF Kind(D) = "Struct" THEN WriteStruct(w, D)
     ELSE Result(w, TRUE))
  ELSE IF Kind(D) = "Protocol" THEN WriteProtocol(w, D)
  ELSE IF Kind(D) = "Func" THEN WriteFunc(w, D)
  ELSE WriteExtension(w, D)

Iteration(D) ==
  \E r \in {Attempt(Writer, D)} :
  /\ IF r.res /\ Back(r.w.declsToWrite) # D
       THEN pc' = "assertFailed" /\ Install(r.w)
       ELSE pc' = pc /\ Install(FinishIteration(r.w, D, r.res))
  /\ UNCHANGED <<module, outputLangMode, interopExtensions>>

Draining(kind) ==
  /\ pc = "drain"
  /\ declsToWrite # <<>>
  /\ Kind(Back(declsToWrite)) = kind

WriteEnumStep == Draining("Enum") /\ Iteration(Back(declsToWrite))

WriteClassStep == Draining("Class") /\ Iteration(Back(declsToWrite))

WriteFuncStep == Draining("Func") /\ Iteration(Back(declsToWrite))

WriteStructStep ==
  Draining("Struct") /\ outputLangMode = "Cxx" /\ Iteration(Back(declsToWrite))

WriteProtocolStep ==
  Draining("Protocol") /\ outputLangMode # "Cxx" /\ Iteration(Back(declsToWrite))

WriteExtensionStep ==
  Draining("Extension") /\ outputLangMode # "Cxx" /\ Iteration(Back(declsToWrite))

\* C++ mode, neither a function nor a struct: success stays true and the
\* declaration is popped ("FIXME: Warn on unsupported exported decl").
UnsupportedCxxStep ==
  /\ pc = "drain" /\ declsToWrite # <<>>
  /\ outputLangMode = "Cxx"
  /\ Kind(Back(declsToWrite)) \in {"Protocol", "Extension"}
  /\ Iteration(Back(declsToWrite))

\* Mutant of LoopExit: the loop is left with declarations on the stack.
LoopExitBeforeEmpty ==
  /\ pc = "drain"
  /\ pc' = "delayed"
  /\ UNCHANGED <<module, outputLangMode, seenTypes, declsToWrite, delayedMembers,
                 imports, dependsOnStdlib, interopExtensions, os>>

LoopExit ==
  /\ pc = "drain"
  /\ declsToWrite = <<>>
  /\ pc' = "delayed"
  /\ UNCHANGED <<module, outputLangMode, seenTypes, declsToWrite, delayedMembers,
                 imports, dependsOnStdlib, interopExtensions, os>>

\* Mutant of AdHocCategories: one block for all the delayed members.
AdHocCategoriesInOneBlock(ms, groupBegin, i) ==
  << CategoryEvent(SubSeq(ms, groupBegin, Len(ms))) >>

\* The grouping loop over delayedMembers: one printAdHocCategory per run of
\* members with the same declaration context.
RECURSIVE AdHocCategories(_, _, _)
AdHocCategories(ms, groupBegin, i) ==
  IF i > Len(ms) THEN << CategoryEvent(SubSeq(ms, groupBegin, Len(ms))) >>
  ELSE IF ms[i].from # ms[groupBegin].from
    THEN << CategoryEvent(SubSeq(ms, groupBegin, i - 1)) >> \o AdHocCategories(ms, i, i + 1)
  ELSE AdHocCategories(ms, groupBegin, i + 1)

DelayedBlocks(ms) == IF ms = <<>> THEN <<>> ELSE AdHocCategories(ms, 1, 1)

PrintDelayedMembers ==
  /\ pc = "delayed"
  /\ os' = os \o DelayedBlocks(delayedMembers)
  /\ pc' = "outOfLine"
  /\ UNCHANGED <<module, outputLangMode, seenTypes, declsToWrite, delayedMembers,
                 imports, dependsOnStdlib, interopExtensions>>

PrintOutOfLineDefinitions ==
  /\ pc = "outOfLine"
  /\ os' = Append(os, OutOfLineEvent)
  /\ pc' = "done"
  /\ UNCHANGED <<module, outputLangMode, seenTypes, declsToWrite, delayedMembers,
                 imports, dependsOnStdlib, interopExtensions>>

Next ==
  \/ BeginWrite
  \/ WriteEnumStep
  \/ WriteClassStep
  \/ WriteFuncStep
  \/ WriteStructStep
  \/ WriteProtocolStep
  \/ WriteExtensionStep
  \/ UnsupportedCxxStep
  \/ LoopExit
  \/ PrintDelayedMembers
  \/ PrintOutOfLineDefinitions

Spec == Init /\ [][Next]_vars

\* Largest number of features of a module under FairSpec.
MaxFairFeatures == 2

FairInit == Init /\ Cardinality(module) <= MaxFairFeatures

\* write() runs to completion on one thread: every enabled step is taken.
FairSpec == FairInit /\ [][Next]_vars /\ WF_vars(Next)

(***************************************************************************)
(* Reading the output                                                      *)
(***************************************************************************)
IsLocal(D) == ModuleOf(D) = ThisModule

\* Positions of os at which the full definition of D is printed.
DefPositions(D) == {i \in 1..Len(os) : os[i].k = "def" /\ os[i].d = D}
FwdPositions(D) == {i \in 1..Len(os) : os[i].k = "fwd" /\ os[i].d = D}
DefCount(D) == Cardinality(DefPositions(D))

Occurrences(stack, D) == Cardinality({i \in 1..Len(stack) : stack[i] = D})

\* The kinds the drain loop hands to a writer in the current output mode.
WrittenKinds ==
  IF outputLangMode = "Cxx" THEN {"Enum", "Class", "Func", "Struct"}
  ELSE {"Enum", "Class", "Protocol", "Func", "Extension"}

NonEmpty(D) == Kind(D) = "Extension" => ~IsEmptyExtensionDecl(D)

MemberCycle(m) ==
  \E x, y \in m : /\ x.f = "ref" /\ y.f = "ref" /\ x.def /\ y.def
                  /\ x.from = y.to /\ y.from = x.to /\ x.from # x.to

\* C2: for every module (superclass and protocol inheritance are acyclic in
\* every module), write() eventually leaves the drain loop with the work
\* stack empty and completes.
C2_DrainTerminates == <>(pc = "done" /\ declsToWrite = <<>>)

\* Completion of a module whose members need each other's full definition.
C2_Witness == pc = "done" /\ declsToWrite = <<>> /\ MemberCycle(module)


(***************************************************************************)
(* write() as a function of the sorted array, for comparing two runs       *)
(***************************************************************************)
InitialWriter(sorted) ==
  [seenTypes |-> [D \in TypeDecls |-> [first |-> NotYetDefined, second |-> FALSE]],
   declsToWrite |-> sorted, delayedMembers |-> <<>>, imports |-> {},
   dependsOnStdlib |-> FALSE, os |-> <<>>]

\* The drain loop run to the empty stack.
RECURSIVE Drain(_)
Drain(w) ==
  IF w.declsToWrite = <<>> THEN w
  ELSE LET D == Back(w.declsToWrite)
           r == Attempt(w, D)
       IN  Drain(FinishIteration(r.w, D, r.res))

\* The text and the import set write() produces from a sorted array.
WriteOutput(sorted) ==
  LET w == Drain(InitialWriter(sorted))
  IN  [os |-> w.os \o DelayedBlocks(w.delayedMembers) \o <<OutOfLineEvent>>,
       imports |-> w.imports]

\* C3: when write() has completed, its output and import set are the ones
\* every other hand-over order of the same top-level declarations produces
\* (the hand-over order reaches the loop only through the order array_pod_sort
\* leaves between declarations that compare Equivalent).
C3_Deterministic ==
  pc = "done" =>
    \A sorted \in SortedOrders(FilteredDecls) :
      WriteOutput(sorted) = [os |-> os, imports |-> imports]


(***************************************************************************)
(* Use sites in the output                                                 *)
(***************************************************************************)
Range(seq) == {seq[i] : i \in 1..Len(seq)}

\* The members whose text is printed at position i of os: the inline members
\* of a printed container, or the members of a delayed-member block.
PrintedMembers(i) ==
  IF os[i].k \in {"def", "category"} /\ Kind(os[i].d) \in {"Class", "Protocol", "Extension"}
  THEN Range(os[i].members) ELSE {}

DefinedBefore(D, i) == \E j \in DefPositions(D) : j < i
ForwardDeclaredBefore(D, i) == \E j \in FwdPositions(D) : j < i

\* A member reference that needs the full definition of another local
\* declaration (a member's reference to its own container is no dependency).
NeedsLocalDefinition(x) == x.f = "ref" /\ x.def /\ IsLocal(x.to) /\ x.to # x.from

\* C4 (as stated): every printed use site inside a class, protocol or
\* extension that requires the full definition of a local declaration D
\* comes after the printed definition of D.
C4_DefinitionBeforeUse ==
  \A i \in 1..Len(os) : \A x \in PrintedMembers(i) :
    NeedsLocalDefinition(x) => DefinedBefore(x.to, i)


\* C4 (amended): a printed use site inside a class or an extension that
\* requires the full definition of a local declaration D of a kind the
\* output mode writes comes after the printed definition of D; a printed use
\* site inside a protocol comes after the definition of D or, when the
\* protocol gave up on D, at least after the forward declaration of D.
C4_DefinitionOrGiveUpBeforeUse ==
  \A i \in 1..Len(os) : \A x \in PrintedMembers(i) :
    NeedsLocalDefinition(x) =>
      IF Kind(x.from) = "Protocol"
      THEN DefinedBefore(x.to, i) \/ ForwardDeclaredBefore(x.to, i)
      ELSE Kind(x.to) \in WrittenKinds => DefinedBefore(x.to, i)

\* A delayed member printed in a block after the definition it needs.
C4_Witness ==
  \E i \in 1..Len(os) : \E x \in PrintedMembers(i) :
    os[i].k = "category" /\ NeedsLocalDefinition(x) /\ DefinedBefore(x.to, i)

\* Positions of os at which a class, protocol or extension is printed.
ContainerDefs ==
  {i \in 1..Len(os) : os[i].k = "def" /\ Kind(os[i].d) \in {"Class", "Protocol", "Extension"}}

\* A member reference that needs only the name of another local declaration.
NeedsLocalName(x) == x.f = "ref" /\ ~x.def /\ IsLocal(x.to) /\ x.to # x.from

ForeignReferences ==
  {x \in module :
     /\ ~IsLocal(x.to)
     /\ x.from \in FilteredDecls \/ ExtendedNominal(x.from) = "S"
     /\ IF outputLangMode = "Cxx"
        THEN \/ Kind(x.from) = "Class" /\ x.f \in {"super", "ref"}
             \/ Kind(x.from) \in {"Func", "Struct", "Enum"} /\ x.f = "ref"
             \/ x.from = "XS" /\ x.f = "ref"
        ELSE \/ Kind(x.from) \in {"Class", "Protocol"}
             \/ Kind(x.from) = "Extension" /\ ~IsEmptyExtensionDecl(x.from)
             \/ Kind(x.from) = "Func"}

IsRequired(x) ==
  \/ x.f \in {"super", "conf", "inh"}
  \/ x.f = "ref" /\ x.def /\ Kind(x.from) \in {"Class", "Protocol", "Extension"}

\* The reference is by name and the mode imports rather than forward-declares.
IsImportedByName(x) ==
  /\ ~IsRequired(x)
  /\ IF outputLangMode = "Cxx" THEN Kind(x.to) \in {"Struct", "Enum"}
     ELSE Kind(x.to) \notin {"Class", "Protocol"}

\* The modules addImport never inserts.
IsImportable(D) ==
  /\ ~IsStdlibModule(ModuleOf(D))
  /\ ~IsBuiltinModule(ModuleOf(D))
  /\ ~IsSimdModule(ModuleOf(D))
  /\ outputLangMode = "Cxx" => HasClangNode(D)

Sup(i) == SuperclassDecl(module, os[i].d)

\* A printed class comes after the definition of its local superclass, and a
\* printed extension after the definition of the class it extends.
SuperclassAndExtendedDefined ==
  \A i \in ContainerDefs :
    /\ (Kind(os[i].d) = "Class" /\ Sup(i) # "none" /\ IsLocal(Sup(i)))
         => DefinedBefore(Sup(i), i)
    /\ Kind(os[i].d) = "Extension" => DefinedBefore(SelfClassDecl(os[i].d), i)

\* C7 (as stated): a class is printed only after its local superclass and
\* its conformed protocols are defined, a protocol only after its inherited
\* protocols, an extension only after its extended class and its conformed
\* protocols.
C7_PrerequisitesDefined ==
  /\ SuperclassAndExtendedDefined
  /\ \A i \in ContainerDefs : \A p \in Range(ProtocolsOf(module, os[i].d)) :
       DefinedBefore(p, i)

\* C7 (amended): the same, where the protocols of a class, protocol or
\* extension are prerequisites in Objective-C mode only; the superclass of a
\* class (Base before Derived) is a prerequisite in both modes.
C7_PrerequisitesDefinedInMode ==
  /\ SuperclassAndExtendedDefined
  /\ outputLangMode = "ObjC" =>
       \A i \in ContainerDefs : \A p \in Range(ProtocolsOf(module, os[i].d)) :
         DefinedBefore(p, i)

\* Derived (A, first in the sorted order) printed after Base (B), and a
\* container printed after a protocol it conforms to or inherits.
C7_Witness ==
  /\ Super("A", "B") \in module
  /\ \E i \in DefPositions("A") : DefinedBefore("B", i)
  /\ \E i \in ContainerDefs : \E p \in Range(ProtocolsOf(module, os[i].d)) :
       DefinedBefore(p, i)

\* Two classes whose members need each other's full definition.
Cyc == Ref("A", "B", TRUE) \in module /\ Ref("B", "A", TRUE) \in module

Other(c) == IF c = "A" THEN "B" ELSE "A"

\* C8 (as stated): both classes of the cycle are emitted, and when each is
\* printed the other has been forward-declared or defined.
C8_EachSeesTheOther ==
  Cyc =>
    /\ pc = "done" => (DefCount("A") = 1 /\ DefCount("B") = 1)
    /\ \A c \in {"A", "B"} : \A i \in DefPositions(c) :
         DefinedBefore(Other(c), i) \/ ForwardDeclaredBefore(Other(c), i)

\* C8 (amended): both classes of the cycle are emitted exactly once; the
\* one printed second is printed with its member inline after the
\* definition of the first; the one printed first is printed without the
\* member that needs the other class, and that member is printed in a
\* delayed-member block after both definitions.
C8_CycleBrokenByDelay ==
  Cyc =>
    /\ DefCount("A") <= 1 /\ DefCount("B") <= 1
    /\ \A c \in {"A", "B"} : \A i \in DefPositions(c) :
         LET x == Ref(c, Other(c), TRUE) IN
         IF DefinedBefore(Other(c), i)
         THEN x \in Range(os[i].members)
         ELSE /\ x \notin Range(os[i].members)
              /\ pc \in {"drain", "delayed"} => x \in Range(delayedMembers)
    /\ pc = "done" =>
         /\ DefCount("A") = 1 /\ DefCount("B") = 1
         /\ \E c \in {"A", "B"} : \E k \in 1..Len(os) :
              /\ os[k].k = "category"
              /\ Ref(c, Other(c), TRUE) \in Range(os[k].members)
              /\ \A j \in DefPositions("A") \cup DefPositions("B") : j < k

\* A completed pass over a module with the cycle.
C8_Witness ==
  /\ Cyc /\ pc = "done"
  /\ \E k \in 1..Len(os) : os[k].k = "category"

\* C9 (as stated): a protocol P with a member that needs the full
\* definition of the local enum E is printed after E, and both are printed
\* exactly once.
C9_EnumBeforeProtocol ==
  (outputLangMode = "ObjC" /\ Ref("P", "E", TRUE) \in module) =>
    /\ \A i \in DefPositions("P") : DefinedBefore("E", i)
    /\ pc = "done" => (DefCount("P") = 1 /\ DefCount("E") = 1)

\* The extension on top of the stack has no printable member.
EmptyExtensionOnTop ==
  /\ pc = "drain" /\ declsToWrite # <<>>
  /\ Kind(Back(declsToWrite)) = "Extension"
  /\ IsEmptyExtensionDecl(Back(declsToWrite))

\* C10: the attempt on an extension without printable members prints
\* nothing, records no import, changes no ledger entry and pushes nothing;
\* it only removes the extension from the stack.
C10_EmptyExtensionElided ==
  [][EmptyExtensionOnTop =>
       /\ os' = os
       /\ imports' = imports
       /\ dependsOnStdlib' = dependsOnStdlib
       /\ seenTypes' = seenTypes
       /\ delayedMembers' = delayedMembers
       /\ declsToWrite' = PopBack(declsToWrite)
       /\ pc' = pc]_vars

\* A completed Objective-C pass over a module with an extension that has a
\* conformance and no printable member.
C10_Witness ==
  /\ pc = "done" /\ outputLangMode = "ObjC"
  /\ \E ED \in Extensions :
       /\ ED \in FilteredDecls
       /\ IsEmptyExtensionDecl(ED)
       /\ ProtocolsOf(module, ED) # <<>>
       /\ DefCount(ED) = 0


\* C11: the EmissionState of a declaration never regresses in a step, so a
\* declaration enters Defined at most once.
C11_LedgerMonotonic ==
  [][\A D \in TypeDecls : seenTypes[D].first <= seenTypes'[D].first]_vars

\* A local declaration that went through DefinitionRequested is Defined and
\* printed while another one is still DefinitionRequested.
C11_Witness ==
  \E D, D2 \in TypeDecls :
    /\ IsLocal(D) /\ seenTypes[D].first = Defined /\ DefCount(D) = 1
    /\ seenTypes[D2].first = DefinitionRequested

\* C12 (as stated): the work stack contains each declaration at most once.
C12_StackHasNoDuplicates ==
  \A D \in TopLevelUniverse : Occurrences(declsToWrite, D) <= 1

\* The nested types of the members of a container.
NestedTypesOf(D) == {x.to : x \in {y \in module : y.f = "nested" /\ y.from = D}}

\* C12 (amended): the initial assignment puts each declaration on the stack
\* once; afterwards the number of copies of a declaration on the stack
\* grows only for a declaration that is not Defined (require pushes it
\* whether or not it is already on the stack) or for a nested type of the
\* container on top.
C12_StackGrowsOnlyByRequire ==
  [][/\ pc = "start" =>
          \A D \in TopLevelUniverse : Occurrences(declsToWrite', D) <= 1
     /\ pc = "drain" =>
          \A D \in TopLevelUniverse :
            Occurrences(declsToWrite', D) > Occurrences(declsToWrite, D)
              => \/ seenTypes[D].first # Defined
                 \/ D \in NestedTypesOf(Back(declsToWrite))]_vars

\* A declaration is on the stack twice.
C12_Witness ==
  \E D \in TopLevelUniverse : Occurrences(declsToWrite, D) = 2


\* C13: in every reachable state, require and tryRequire of a declaration
\* of a foreign module report success, leave it Defined and leave the stack
\* as it is; no foreign declaration is on the stack or printed as a definition.
C13_ForeignSatisfiedByImport ==
  \A D \in ForeignDecls :
    /\ \A r \in {Require(Writer, D), TryRequire(Writer, D)} :
         /\ r.res
         /\ r.w.seenTypes[D] = [first |-> Defined, second |-> TRUE]
         /\ r.w.declsToWrite = declsToWrite
    /\ Occurrences(declsToWrite, D) = 0
    /\ DefCount(D) = 0

\* The pass has required a foreign declaration: it is Defined in the ledger.
C13_Witness ==
  /\ pc = "done"
  /\ \E D \in ForeignDecls : seenTypes[D].first = Defined


\* The local declarations whose state is DefinitionRequested.
RequestedDecls ==
  {D \in TypeDecls : IsLocal(D) /\ seenTypes[D].first = DefinitionRequested}

\* C14 (as stated): require of a local declaration that is already
\* DefinitionRequested reports not-yet-satisfied and changes neither the
\* ledger nor the work stack.
C14_RequireOfRequestedChangesNothing ==
  \A D \in RequestedDecls : Require(Writer, D) = Result(Writer, FALSE)

\* C14 (amended): require of a local declaration that is already
\* DefinitionRequested reports not-yet-satisfied, leaves the ledger, the
\* imports and the output unchanged and pushes the declaration on the work
\* stack once more.
C14_RequireOfRequestedPushesAgain ==
  \A D \in RequestedDecls :
    Require(Writer, D) = Result([Writer EXCEPT !.declsToWrite = Append(@, D)], FALSE)

\* A declaration that is DefinitionRequested has been pushed by require a
\* second time: with its copy of the initial assignment it is on the stack
\* three times.
C14_Witness ==
  \E D \in RequestedDecls : Occurrences(declsToWrite, D) >= 3


\* C15: in every reachable state, tryRequire of a local declaration reports
\* success exactly when the declaration is Defined and changes nothing: not
\* its EmissionState, not its forwardDeclared flag, not the stack, not the
\* imports.
C15_TryRequireChangesNothing ==
  \A D \in TypeDecls :
    IsLocal(D) => TryRequire(Writer, D) = Result(Writer, seenTypes[D].first = Defined)

\* A member was delayed because tryRequire of its type failed, and that type
\* is Defined by now, so that tryRequire of it succeeds.
C15_Witness ==
  \E i \in 1..Len(delayedMembers) :
    /\ IsLocal(delayedMembers[i].to)
    /\ seenTypes[delayedMembers[i].to].first = Defined


FwdCount(D) == Cardinality(FwdPositions(D))

\* C16 (as stated): the name-only emission happens at most once per
\* declaration, and the forwardDeclared flag is set by that emission alone,
\* whatever the EmissionState of the declaration does.
C16_FlagSetByForwardDeclareOnly ==
  \A D \in TypeDecls :
    /\ FwdCount(D) <= 1
    /\ seenTypes[D].second => FwdCount(D) = 1

\* C16 (amended): the name-only emission happens at most once per
\* declaration; the forwardDeclared flag is set by that emission and also by
\* every transition into Defined, so that no forward declaration of a
\* declaration is emitted once it is Defined or printed; a transition into
\* DefinitionRequested leaves the flag alone.
C16_FlagSetByForwardDeclareOrDefined ==
  \A D \in TypeDecls :
    /\ FwdCount(D) <= 1
    /\ seenTypes[D].second <=> (FwdCount(D) = 1 \/ seenTypes[D].first = Defined)
    /\ \A i \in FwdPositions(D) : \A j \in DefPositions(D) : i < j

\* One declaration was forward-declared and later Defined; another one is
\* Defined with the flag set and was never forward-declared; a third one is
\* DefinitionRequested with the flag clear.
C16_Witness ==
  /\ \E D \in TypeDecls : IsLocal(D) /\ FwdCount(D) = 1 /\ seenTypes[D].first = Defined
  /\ \E D \in TypeDecls : IsLocal(D) /\ FwdCount(D) = 0 /\ seenTypes[D].second
  /\ \E D \in TypeDecls : seenTypes[D].first = DefinitionRequested /\ ~seenTypes[D].second


\* C17 (as stated): a declaration of the filtered set whose kind the loop
\* does not write in the current mode is never popped: once the loop runs
\* it stays on the stack (the run is fatal).
C17_UnsupportedNeverPopped ==
  \A D \in FilteredDecls :
    (Kind(D) \notin WrittenKinds /\ pc \in {"drain", "delayed", "outOfLine", "done"})
      => Occurrences(declsToWrite, D) >= 1

\* The class on top of the stack during the loop.
ClassOnTop ==
  /\ pc = "drain" /\ declsToWrite # <<>>
  /\ Kind(Back(declsToWrite)) = "Class"
  /\ seenTypes[Back(declsToWrite)].first # Defined

\* require(D) would report success in the current state.
Satisfied(D) == ~IsLocal(D) \/ seenTypes[D].first = Defined

\* The superclass and the conformances writeClass requires are satisfied.
ClassRequirementsSatisfied(CD) ==
  /\ SuperclassDecl(module, CD) # "none" => Satisfied(SuperclassDecl(module, CD))
  /\ outputLangMode # "Cxx" => \A p \in Range(ProtocolsOf(module, CD)) : Satisfied(p)

\* The members of a container with an unsatisfied full-definition
\* dependency on another declaration, in declaration order.
UnsatisfiedMembers(D) ==
  SelectSeq(MembersOf(module, D),
            LAMBDA x : x.f = "ref" /\ x.def /\ x.to # D /\ ~Satisfied(x.to))

\* C18: the attempt on a class whose superclass and conformances are
\* satisfied marks the class Defined, prints it and pops it, whatever the
\* state of the types its members need; it adds exactly the members with an
\* unsatisfied full-definition dependency to the delayed set and requests
\* nothing (the stack only receives the nested types of the class).  An
\* attempt with unsatisfied requirements delays no member.
C18_ClassNeverBlockedByMember ==
  [][ClassOnTop =>
       LET CD == Back(declsToWrite) IN
       IF ClassRequirementsSatisfied(CD)
       THEN /\ seenTypes'[CD].first = Defined
            /\ Len(os') > Len(os) /\ SubSeq(os', 1, Len(os)) = os
            /\ os'[Len(os')].k = "def" /\ os'[Len(os')].d = CD
            /\ \A i \in (Len(os) + 1)..(Len(os') - 1) : os'[i].k = "fwd"
            /\ delayedMembers' = delayedMembers \o UnsatisfiedMembers(CD)
            /\ \A x \in Range(UnsatisfiedMembers(CD)) :
                 /\ seenTypes'[x.to].first = seenTypes[x.to].first
                 /\ Occurrences(declsToWrite', x.to) <= Occurrences(declsToWrite, x.to)
                        + (IF x.to \in NestedTypesOf(CD) THEN 1 ELSE 0)
            /\ Occurrences(declsToWrite', CD) = Occurrences(declsToWrite, CD) - 1
       ELSE /\ delayedMembers' = delayedMembers
            /\ os' = os]_vars

\* A class was printed while a member of it sits in the delayed set and the
\* type that member needs was not scheduled by the class: it is printed
\* after the class.
C18_Witness ==
  \E i \in 1..Len(delayedMembers) :
    LET x == delayedMembers[i] IN
    /\ Kind(x.from) = "Class" /\ DefCount(x.from) = 1
    /\ \E j \in DefPositions(x.from) : \E k \in DefPositions(x.to) : j < k


\* Number of full definitions of D in an output.
DefsIn(out, D) == Cardinality({i \in 1..Len(out) : out[i].k = "def" /\ out[i].d = D})

\* The extension on top of the stack during the loop of the Objective-C
\* writer.
ExtensionOnTop ==
  /\ pc = "drain" /\ declsToWrite # <<>>
  /\ outputLangMode # "Cxx"
  /\ Kind(Back(declsToWrite)) = "Extension"

\* The extended class and the protocols writeExtension requires are
\* satisfied.
ExtensionRequirementsSatisfied(ED) ==
  /\ Satisfied(SelfClassDecl(ED))
  /\ \A p \in Range(ProtocolsOf(module, ED)) : Satisfied(p)

\* C19: an attempt on an extension with a member whose full-definition
\* dependency is not satisfied prints nothing of the extension, leaves it on
\* the stack and adds nothing to the delayed set; when the extended class
\* and the protocols are satisfied it requests each such dependency.  An
\* attempt that prints the extension leaves every full-definition dependency
\* of its members Defined.
C19_ExtensionDelayedWholesale ==
  [][ExtensionOnTop =>
       LET ED == Back(declsToWrite)
           deps == {x.to : x \in {y \in Range(MembersOf(module, ED)) : y.f = "ref" /\ y.def}}
       IN
       /\ delayedMembers' = delayedMembers
       /\ UnsatisfiedMembers(ED) # <<>> =>
            /\ DefsIn(os', ED) = DefsIn(os, ED)
            /\ Occurrences(declsToWrite', ED) = Occurrences(declsToWrite, ED)
            /\ ExtensionRequirementsSatisfied(ED) =>
                 \A x \in Range(UnsatisfiedMembers(ED)) :
                   /\ seenTypes'[x.to].first = DefinitionRequested
                   /\ Occurrences(declsToWrite', x.to) = Occurrences(declsToWrite, x.to) + 1
       /\ DefsIn(os', ED) > DefsIn(os, ED) =>
            /\ \A D \in deps : seenTypes'[D].first = Defined
            /\ Occurrences(declsToWrite', ED) = Occurrences(declsToWrite, ED) - 1]_vars

\* An extension was printed after a type one of its members needs in full,
\* and that type was printed after the extended class: the extension waited
\* for it.
C19_Witness ==
  /\ pc = "done"
  /\ \E ED \in FilteredDecls :
       /\ Kind(ED) = "Extension" /\ DefCount(ED) = 1
       /\ \E x \in Range(MembersOf(module, ED)) :
            /\ x.f = "ref" /\ x.def /\ IsLocal(x.to)
            /\ \A i \in DefPositions(ED) :
                 \E j \in DefPositions(x.to) : \E k \in DefPositions(SelfClassDecl(ED)) :
                   k < j /\ j < i


\* The protocol on top of the stack during the loop of the Objective-C
\* writer, with its inherited protocols satisfied: the attempt reaches the
\* members.
ProtocolOnTop ==
  /\ pc = "drain" /\ declsToWrite # <<>>
  /\ outputLangMode # "Cxx"
  /\ Kind(Back(declsToWrite)) = "Protocol"
  /\ seenTypes[Back(declsToWrite)].first # Defined
  /\ \A p \in Range(ProtocolsOf(module, Back(declsToWrite))) : Satisfied(p)

\* The attempt pushed D.
Scheduled(D) == Occurrences(declsToWrite', D) > Occurrences(declsToWrite, D)

\* The attempt printed and popped the declaration.
PrintedNow(D) ==
  /\ DefsIn(os', D) = DefsIn(os, D) + 1
  /\ Occurrences(declsToWrite', D) = Occurrences(declsToWrite, D) - 1

\* C20 (as stated): a protocol is delayed for the full-definition dependency
\* D of a member only if neither the protocol nor D has been requested.
C20_DelayedOnlyIfNeitherRequested ==
  [][ProtocolOnTop =>
       \A x \in Range(UnsatisfiedMembers(Back(declsToWrite))) :
         Scheduled(x.to) =>
           /\ ~HasBeenRequested(Writer, Back(declsToWrite))
           /\ ~HasBeenRequested(Writer, x.to)]_vars

\* C20 (amended): a protocol is delayed for the unsatisfied full-definition
\* dependency D of a member, require(D) pushing D, unless both the protocol
\* and D have been requested; the attempt prints the protocol exactly when
\* that is the case for every such member, and it delays no member
\* individually.
C20_DelayedUnlessBothRequested ==
  [][ProtocolOnTop =>
       LET PD == Back(declsToWrite)
           GivenUp(x) == HasBeenRequested(Writer, PD) /\ HasBeenRequested(Writer, x.to)
       IN
       /\ \A x \in Range(UnsatisfiedMembers(PD)) :
            /\ Scheduled(x.to) <=> ~GivenUp(x)
            /\ ~GivenUp(x) => seenTypes'[x.to].first = DefinitionRequested
       /\ PrintedNow(PD) <=> \A x \in Range(UnsatisfiedMembers(PD)) : GivenUp(x)
       /\ ~PrintedNow(PD) => \A i \in (Len(os) + 1)..Len(os') : os'[i].k = "fwd"
       /\ delayedMembers' = delayedMembers]_vars

\* A requested protocol sits directly below a type a member of it needs in
\* full and that it does not inherit from: its attempt pushed the type and
\* left the protocol unprinted.
C20_Witness ==
  /\ pc = "drain" /\ Len(declsToWrite) >= 2
  /\ LET D == Back(declsToWrite)
         PD == declsToWrite[Len(declsToWrite) - 1]
     IN
     /\ Kind(PD) = "Protocol" /\ DefCount(PD) = 0
     /\ seenTypes[PD].first = DefinitionRequested
     /\ seenTypes[D].first = DefinitionRequested
     /\ D \notin Range(ProtocolsOf(module, PD))
     /\ Occurrences(declsToWrite, PD) >= 2
     /\ \E x \in Range(MembersOf(module, PD)) : x.f = "ref" /\ x.def /\ x.to = D


\* X needs the full definition of Y: Y is its superclass, a protocol it
\* conforms to or inherits from, the class it extends, or a type a member
\* of it needs in full.
DependsOn(X, Y) ==
  \/ \E x \in module : /\ x.from = X /\ x.to = Y
                       /\ (x.f \in {"super", "conf", "inh"} \/ (x.f = "ref" /\ x.def))
  \/ Kind(X) = "Extension" /\ ExtendedNominal(X) = Y

\* The declarations reachable from the set S in at most n dependency steps.
RECURSIVE ReachableFrom(_, _)
ReachableFrom(S, n) ==
  IF n = 0 THEN S
  ELSE ReachableFrom(S \cup {Y \in TypeDecls : \E X \in S : DependsOn(X, Y)}, n - 1)

\* A cyclic full-definition dependency between X and Y.
CyclicDependency(X, Y) ==
  /\ X \in ReachableFrom({Y}, MaxFeatures + 1)
  /\ Y \in ReachableFrom({X}, MaxFeatures + 1)

\* C21 (as stated): a class, protocol or extension is printed with a member
\* that needs the full definition of a local declaration D not yet printed
\* only when there is a cyclic full-definition dependency between the
\* container and D.
C21_GiveUpOnlyInCycle ==
  \A i \in ContainerDefs : \A x \in PrintedMembers(i) :
    (/\ NeedsLocalDefinition(x) /\ Kind(x.to) \in WrittenKinds
     /\ ~DefinedBefore(x.to, i))
      => CyclicDependency(x.from, x.to)


\* C22 (as stated): a nested type is never in the delayed set, and its
\* definition is printed after the definition of its container with no other
\* definition in between.
C22_NestedRightAfterContainer ==
  /\ \A i \in 1..Len(delayedMembers) : delayedMembers[i].f # "nested"
  /\ \A x \in module : x.f = "nested" =>
       \A j \in DefPositions(x.to) :
         \E i \in DefPositions(x.from) :
           i < j /\ \A k \in (i + 1)..(j - 1) : os[k].k = "fwd"


\* The declaration at the higher index of the stack is attempted first when
\* nothing is pushed in between.
AttemptedInOrder(first, second) ==
  /\ SortName(first) <= SortName(second)
  /\ SortName(first) = SortName(second) =>
       /\ IsValueDecl(second) => IsValueDecl(first)
       /\ (~IsValueDecl(first) /\ ~IsValueDecl(second)) =>
            Len(MembersOf(module, first)) <= Len(MembersOf(module, second))

\* No feature of the module makes one local declaration depend on another.
NoDependencies == \A x \in module : ~IsLocal(x.to) \/ x.to = x.from

\* The definitions of the output, in order.
Definitions == SelectSeq(os, LAMBDA e : e.k = "def")

\* The state in which write() enters the loop: nothing was popped, pushed,
\* requested or printed yet.
StartOfLoop ==
  /\ pc = "drain" /\ os = <<>>
  /\ Len(declsToWrite) = Cardinality(FilteredDecls)
  /\ \A D \in TypeDecls : seenTypes[D].first = NotYetDefined

\* C23: the stack write() starts the loop with holds the filtered
\* declarations so that, from the back, user-facing names ascend, a plain
\* declaration comes before an extension of the same name and of two
\* extensions of one name the one with fewer members comes first; when no
\* declaration depends on another local one, the definitions are printed in
\* that order.
C23_InitialStackOrder ==
  /\ StartOfLoop =>
       /\ Range(declsToWrite) = FilteredDecls
       /\ \A i, j \in 1..Len(declsToWrite) :
            i < j => AttemptedInOrder(declsToWrite[j], declsToWrite[i])
  /\ (pc = "done" /\ NoDependencies) =>
       \A i, j \in 1..Len(Definitions) :
         i < j => AttemptedInOrder(Definitions[i].d, Definitions[j].d)

\* The loop starts with a class on the stack above two extensions of it, the
\* one with more members lowest.
C23_Witness ==
  /\ StartOfLoop
  /\ \E i, j, k \in 1..Len(declsToWrite) :
       /\ i < j /\ j < k
       /\ IsValueDecl(declsToWrite[k])
       /\ ~IsValueDecl(declsToWrite[i]) /\ ~IsValueDecl(declsToWrite[j])
       /\ SortName(declsToWrite[i]) = SortName(declsToWrite[k])
       /\ SortName(declsToWrite[j]) = SortName(declsToWrite[k])
       /\ Len(MembersOf(module, declsToWrite[i])) > Len(MembersOf(module, declsToWrite[j]))
       /\ \E n \in 1..Len(declsToWrite) : SortName(declsToWrite[n]) # SortName(declsToWrite[k])


\* C24 (as stated): once the sort has completed without a fatal assertion,
\* the comparator orders every two distinct declarations of the filtered
\* set strictly and consistently in both directions.
C24_ComparatorStrictTotal ==
  pc # "start" =>
    \A D1, D2 \in FilteredDecls :
      D1 # D2 => /\ Compare(D1, D2) # Equivalent
                 /\ Compare(D1, D2) = -Compare(D2, D1)


\* A step of the loop on the declaration on top of the stack.
LoopStep == pc = "drain" /\ declsToWrite # <<>>

\* The stack a failed attempt leaves: every old entry in place, and on top
\* a declaration in state DefinitionRequested.
DependencyAbove ==
  /\ Len(declsToWrite') > Len(declsToWrite)
  /\ SubSeq(declsToWrite', 1, Len(declsToWrite)) = declsToWrite
  /\ seenTypes'[declsToWrite'[Len(declsToWrite')]].first = DefinitionRequested

\* The nested types among the members of D, in declaration order.
NestedTypeSeq(D) ==
  LET ms == SelectSeq(MembersOf(module, D), LAMBDA x : x.f = "nested")
  IN  [i \in 1..Len(ms) |-> ms[i].to]

\* C25 (as stated): when the writer reports success the stack loses its top
\* entry and nothing else changes; when it reports failure the declaration
\* stays and a dependency in state DefinitionRequested lies above it.
C25_SuccessPopsOnly ==
  [][LoopStep =>
       \A r \in {Attempt(Writer, Back(declsToWrite))} :
         /\ pc' # "assertFailed"
         /\ r.res => declsToWrite' = PopBack(declsToWrite)
         /\ ~r.res => DependencyAbove]_vars

\* C25 (amended): when the writer reports success nothing was placed above
\* D, the assertion holds and D is popped; the stack is then the old one
\* without its top, followed by the nested types of D when the writer walked
\* the members of D.  When it reports failure every old entry stays and a
\* dependency in state DefinitionRequested is on top.
C25_SuccessPopsAboveNested ==
  [][LoopStep =>
       \A r \in {Attempt(Writer, Back(declsToWrite))} :
         /\ pc' # "assertFailed"
         /\ r.res => /\ Back(r.w.declsToWrite) = Back(declsToWrite)
                     /\ declsToWrite' \in
                          {PopBack(declsToWrite),
                           PopBack(declsToWrite) \o Reverse(NestedTypeSeq(Back(declsToWrite)))}
         /\ ~r.res => DependencyAbove]_vars

\* A class with a nested type was printed and popped, and the nested type
\* is now on top of the stack.
C25_Witness ==
  /\ pc = "drain" /\ declsToWrite # <<>>
  /\ \E x \in module :
       /\ x.f = "nested" /\ x.to = Back(declsToWrite)
       /\ DefCount(x.from) = 1 /\ DefCount(x.to) = 0
       /\ Occurrences(declsToWrite, x.from) = 0


\* The delayed-member blocks of the output, in order.
Blocks == SelectSeq(os, LAMBDA e : e.k = "category")

RECURSIVE Concat(_)
Concat(seqs) == IF seqs = <<>> THEN <<>> ELSE Head(seqs) \o Concat(Tail(seqs))

\* C26: once the delayed members are printed, the blocks of the output, one
\* after the other, hold the delayed members in insertion order, each
\* exactly once; no block is empty, the members of a block share their
\* declaration context and two consecutive blocks differ in it.
C26_BlocksAreMaximalRuns ==
  pc \in {"outOfLine", "done"} =>
    /\ Concat([i \in 1..Len(Blocks) |-> Blocks[i].members]) = delayedMembers
    /\ \A i, j \in 1..Len(delayedMembers) : delayedMembers[i] = delayedMembers[j] => i = j
    /\ \A i \in 1..Len(Blocks) :
         /\ Blocks[i].members # <<>>
         /\ \A x \in Range(Blocks[i].members) : x.from = Blocks[i].members[1].from
    /\ \A i \in 1..(Len(Blocks) - 1) :
         Blocks[i].members[1].from # Blocks[i + 1].members[1].from

\* Two blocks were printed, for different classes.
C26_Witness ==
  /\ pc = "done"
  /\ Len(Blocks) >= 2
  /\ Blocks[1].members[1].from # Blocks[2].members[1].from


\* Positions of os at which a delayed-member block is printed.
BlockPositions == {i \in 1..Len(os) : os[i].k = "category"}

\* C27 (as stated): a delayed-member block comes after the printed
\* definition of every top-level declaration of the filtered set.
C27_BlocksAfterEveryDeclaration ==
  \A i \in BlockPositions : \A D \in FilteredDecls : DefinedBefore(D, i)

\* C27 (amended): a delayed-member block is in the output only when the
\* stack has drained; it comes after every definition and forward
\* declaration, after the definition of the class of its members and of
\* every local type they need in full, and after the definition of every
\* declaration of the filtered set that the output mode writes and that is
\* not an empty extension; the out-of-line
\* definitions are printed once, after all the blocks, as the last of the
\* output.
C27_BlocksAfterDrain ==
  /\ BlockPositions # {} => pc \in {"outOfLine", "done"} /\ declsToWrite = <<>>
  /\ \A i \in BlockPositions :
       /\ \A j \in 1..Len(os) : os[j].k \in {"def", "fwd"} => j < i
       /\ \A x \in Range(os[i].members) :
            /\ DefinedBefore(x.from, i)
            /\ NeedsLocalDefinition(x) => DefinedBefore(x.to, i)
       /\ \A D \in FilteredDecls :
            (Kind(D) \in WrittenKinds /\ ~(Kind(D) = "Extension" /\ IsEmptyExtensionDecl(D)))
              => DefinedBefore(D, i)
  /\ \A j \in 1..Len(os) : os[j].k = "outOfLine" => pc = "done" /\ j = Len(os)
  /\ pc = "done" => /\ os # <<>> /\ os[Len(os)].k = "outOfLine"
                    /\ Len(Blocks) > 0 <=> delayedMembers # <<>>

\* The run completed with two classes of a cycle printed, then a block,
\* then the out-of-line definitions.
C27_Witness ==
  /\ pc = "done"
  /\ \E i \in BlockPositions : \E x \in Range(os[i].members) :
       /\ DependsOn(x.to, x.from)
       /\ DefinedBefore(x.from, i) /\ DefinedBefore(x.to, i)
       /\ os[Len(os)].k = "outOfLine" /\ i < Len(os)


\* C28: a declaration whose EmissionState is Defined has its forwardDeclared
\* flag set; no forward declaration of a declaration follows its definition
\* in the output, and no step prints a forward declaration of a declaration
\* that is Defined, by its definition or by import.
C28_DefinedImpliesForwardDeclared ==
  /\ [](\A D \in TypeDecls :
          /\ seenTypes[D].first = Defined => seenTypes[D].second
          /\ \A i \in FwdPositions(D) : \A j \in DefPositions(D) : i < j)
  /\ [][\A D \in TypeDecls :
          seenTypes[D].first = Defined => FwdPositions(D)' = FwdPositions(D)]_vars

\* A declaration was printed with a member that references by name a local
\* type defined earlier, and that type was never forward-declared; a foreign
\* type is Defined by import.
C28_Witness ==
  /\ \E x \in module :
       /\ NeedsLocalName(x)
       /\ seenTypes[x.to].first = Defined /\ FwdCount(x.to) = 0
       /\ \E i \in DefPositions(x.from) : \E j \in DefPositions(x.to) : j < i
  /\ \E D \in ForeignDecls : seenTypes[D].first = Defined /\ FwdCount(D) = 0
  /\ outputLangMode # "Cxx"


\* The loop has ended.
Drained == pc \in {"delayed", "outOfLine", "done"}

====
